---- MODULE Spec2Model ----
(***************************************************************************)
(* A model of solver.py: the recursive-descent Parser (four precedence     *)
(* tiers), the variable collector and the brute-force Solver that walks    *)
(* all 2^n assignments of the free variables.                              *)
(***************************************************************************)
EXTENDS Integers, Sequences, FiniteSets, TLC

(***************************************************************************)
(* Bounds of the explored inputs.                                          *)
(***************************************************************************)
\* longest token line drawn exhaustively from TokAlphabet
MaxLen == 4
\* most operator nodes of a tree whose rendering is handed to the parser
MaxParseOps == 2
\* most operator nodes, over all lines, of an expression set handed to Solver
MaxOps == 1
\* most calls of solve on one Solver
MaxRuns == 2

(***************************************************************************)
(* Values.  Python's None in a Node slot, a str payload and a Node are     *)
(* records with different fields, so any two of them can be compared.      *)
(* The lookahead is a str or None; NoneTok stands for None there: the      *)
(* tokenizer (\w+|\S) can never produce it.                                *)
(***************************************************************************)
None == [none |-> TRUE]
NoneTok == "<None>"
Str(s) == [str |-> s]
Node(left_val, right_val, ty) ==
    [left_val |-> left_val, right_val |-> right_val, ty |-> ty]
IsNode(x) == DOMAIN x = {"left_val", "right_val", "ty"}

\* str.lower() on the tokens of the explored alphabet
Lower(tok) ==
    CASE tok = "A" -> "a"
      [] tok = "B" -> "b"
      [] tok = "C" -> "c"
      [] tok = "D" -> "d"
      [] tok = "NOR" -> "nor"
      [] tok = "Nor" -> "nor"
      [] tok = "NAND" -> "nand"
      [] tok = "Nand" -> "nand"
      [] OTHER -> tok

\* str comparison by code point, on the names that can become leaves
NameOrder == << ")", "0", "1", "A", "B", "C", "D", "NAND", "NOR", "Nand",
                "Nor", "a", "b", "c", "d" >>
Rank(s) == CHOOSE i \in 1..Len(NameOrder) : NameOrder[i] = s

(***************************************************************************)
(* Parser.  A parser state p is [pos, la, err, tree]: _curr_pos,           *)
(* _lookahead, the message print_err exited with ("" while running) and    *)
(* the value the last method returned.  print_err ends the process, so a   *)
(* state with err # "" passes through every later step unchanged.          *)
(***************************************************************************)
Fail(p, msg) == [p EXCEPT !.err = msg, !.tree = None]

\* Parser.__init__
ParserNew(toks) == [pos |-> 0, la |-> Lower(toks[1]), err |-> "", tree |-> None]

consume(toks, p, tok) ==
    IF p.err # "" THEN p
    ELSE IF p.pos >= Len(toks) THEN Fail(p, "expected_got_none")
    ELSE IF toks[p.pos + 1] # tok THEN Fail(p, "expected_got_other")
    ELSE [p EXCEPT !.pos = p.pos + 1,
                   !.la = IF p.pos + 1 < Len(toks) THEN toks[p.pos + 2]
                          ELSE NoneTok]

is_keyword(tok) ==
    tok \in {"&", "|", "!", "nor", "nand", "^", "=", ">", NoneTok}

\* return Node(<operand s>, None, "!")
NotNode(s) ==
    IF s.err # "" THEN s ELSE [s EXCEPT !.tree = Node(s.tree, None, "!")]

\* return Node(<the token consumed into c>, None, "var")
VarNode(c, consumed) ==
    IF c.err # "" THEN c ELSE [c EXCEPT !.tree = Node(Str(consumed), None, "var")]

\* tree = Node(tree, <right operand r>, junction)
Junction(l, r, junction) ==
    IF r.err # "" THEN r ELSE [r EXCEPT !.tree = Node(l.tree, r.tree, junction)]

\* return expr, after the closing parenthesis was consumed into d
ReturnExpr(d, e) ==
    IF d.err # "" THEN d ELSE [d EXCEPT !.tree = e.tree]

\* self._consume(")"); return expr
CloseParen(toks, e) == ReturnExpr(consume(toks, e, ")"), e)

RECURSIVE parse_primary_expr(_, _)
RECURSIVE parse_low_prec_expr(_, _)

parse_primary_expr(toks, p) ==
    IF p.err # "" THEN p
    ELSE IF p.la = "!" THEN
        NotNode(parse_primary_expr(toks, consume(toks, p, "!")))
    ELSE IF p.la = "(" THEN
        CloseParen(toks, parse_low_prec_expr(toks, consume(toks, p, "(")))
    ELSE IF ~is_keyword(p.la) THEN
        VarNode(consume(toks, p, p.la), toks[p.pos + 1])
    ELSE Fail(p, "expected_primary")

\* a faulty variant of high_prec_loop: "|" is taken for an operator of the high tier
RECURSIVE high_prec_loop_wide(_, _)
high_prec_loop_wide(toks, p) ==
    IF p.err # "" THEN p
    ELSE IF p.la = "&" \/ p.la = "^" \/ p.la = "|" THEN
        high_prec_loop_wide(toks,
            Junction(p, parse_primary_expr(toks, consume(toks, p, p.la)), p.la))
    ELSE p

\* the while loop of _parse_high_prec_expr; p.tree is the tree so far
RECURSIVE high_prec_loop(_, _)
high_prec_loop(toks, p) ==
    IF p.err # "" THEN p
    ELSE IF p.la = "&" \/ p.la = "^" THEN
        high_prec_loop(toks,
            Junction(p, parse_primary_expr(toks, consume(toks, p, p.la)), p.la))
    ELSE p

parse_high_prec_expr(toks, p) ==
    high_prec_loop(toks, parse_primary_expr(toks, p))

\* the while loop of _parse_med_prec_expr
RECURSIVE med_prec_loop(_, _)
med_prec_loop(toks, p) ==
    IF p.err # "" THEN p
    ELSE IF p.la \in {"|", "nor", "nand", ">"} THEN
        med_prec_loop(toks,
            Junction(p, parse_high_prec_expr(toks, consume(toks, p, p.la)), p.la))
    ELSE p

parse_med_prec_expr(toks, p) ==
    med_prec_loop(toks, parse_high_prec_expr(toks, p))

\* the while loop of _parse_low_prec_expr
RECURSIVE low_prec_loop(_, _)
low_prec_loop(toks, p) ==
    IF p.err # "" THEN p
    ELSE IF p.la = "=" THEN
        low_prec_loop(toks,
            Junction(p, parse_med_prec_expr(toks, consume(toks, p, "=")), "="))
    ELSE p

parse_low_prec_expr(toks, p) ==
    low_prec_loop(toks, parse_med_prec_expr(toks, p))

\* a faulty variant of StoppedCheck: leftover tokens are not looked at
StoppedCheck_unchecked(e) == e

\* the check parse makes once _parse_low_prec_expr has returned
StoppedCheck(e) ==
    IF e.err # "" THEN e
    ELSE IF e.la # NoneTok THEN Fail(e, "parser_stopped")
    ELSE e

\* Parser.parse, from the state p the constructor left
parse(toks, p) == StoppedCheck(parse_low_prec_expr(toks, p))

(***************************************************************************)
(* Variable collector and Solver.                                          *)
(***************************************************************************)
\* a faulty variant of get_vars_expr: the constants are collected like variables
RECURSIVE get_vars_expr_all(_)
get_vars_expr_all(expr) ==
    IF IsNode(expr) THEN
        IF expr.ty = "var" THEN {expr.left_val.str}
        ELSE get_vars_expr_all(expr.left_val) \cup get_vars_expr_all(expr.right_val)
    ELSE {}

RECURSIVE get_vars_expr(_)
get_vars_expr(expr) ==
    IF IsNode(expr) THEN
        IF expr.ty = "var" /\ expr.left_val # Str("0") /\ expr.left_val # Str("1")
        THEN {expr.left_val.str}
        ELSE get_vars_expr(expr.left_val) \cup get_vars_expr(expr.right_val)
    ELSE {}

get_vars_expr_list(exprs) ==
    UNION {get_vars_expr(exprs[i]) : i \in 1..Len(exprs)}

\* list(set).sort()
RECURSIVE SortedList(_)
SortedList(S) ==
    IF S = {} THEN << >>
    ELSE LET m == CHOOSE x \in S : \A y \in S : Rank(x) <= Rank(y)
         IN  << m >> \o SortedList(S \ {m})

SolverVars(exprs) == SortedList(get_vars_expr_list(exprs))

\* a faulty variant of next_combination: a true slot is cleared without a carry
next_combination_nocarry(vals, curr_idx) ==
    IF curr_idx >= Len(vals) THEN vals
    ELSE [vals EXCEPT ![curr_idx + 1] = ~vals[curr_idx + 1]]

\* a faulty variant of next_combination: the last variable is the least-significant
\* bit (the carry runs from the end of the vector to its front)
RECURSIVE next_combination_msb(_, _)
next_combination_msb(vals, curr_idx) ==
    IF curr_idx >= Len(vals) THEN vals
    ELSE IF ~vals[Len(vals) - curr_idx]
        THEN [vals EXCEPT ![Len(vals) - curr_idx] = TRUE]
    ELSE next_combination_msb([vals EXCEPT ![Len(vals) - curr_idx] = FALSE],
                              curr_idx + 1)

RECURSIVE next_combination(_, _)
next_combination(vals, curr_idx) ==
    IF curr_idx >= Len(vals) THEN vals
    ELSE IF ~vals[curr_idx + 1] THEN [vals EXCEPT ![curr_idx + 1] = TRUE]
    ELSE next_combination([vals EXCEPT ![curr_idx + 1] = FALSE], curr_idx + 1)

\* list.index
Index(list, x) == CHOOSE i \in 1..Len(list) : list[i] = x /\ \A j \in 1..(i - 1) : list[j] # x

\* a faulty variant of solve_expr: ">" is read as the converse implication, and
\* "nand" as "nor"
RECURSIVE solve_expr_swapped(_, _, _)
solve_expr_swapped(expr, vs, vals) ==
    CASE expr.ty = "var" ->
             IF expr.left_val = Str("0") THEN FALSE
             ELSE IF expr.left_val = Str("1") THEN TRUE
             ELSE vals[Index(vs, expr.left_val.str)]
      [] expr.ty = "!" -> ~solve_expr_swapped(expr.left_val, vs, vals)
      [] expr.ty = "&" ->
             solve_expr_swapped(expr.left_val, vs, vals)
             /\ solve_expr_swapped(expr.right_val, vs, vals)
      [] expr.ty = "|" ->
             solve_expr_swapped(expr.left_val, vs, vals)
             \/ solve_expr_swapped(expr.right_val, vs, vals)
      [] expr.ty = "^" ->
             solve_expr_swapped(expr.left_val, vs, vals)
             # solve_expr_swapped(expr.right_val, vs, vals)
      [] expr.ty = "=" ->
             solve_expr_swapped(expr.left_val, vs, vals)
             = solve_expr_swapped(expr.right_val, vs, vals)
      [] expr.ty \in {"nand", "nor"} ->
             ~(solve_expr_swapped(expr.left_val, vs, vals)
               \/ solve_expr_swapped(expr.right_val, vs, vals))
      [] expr.ty = ">" ->
             solve_expr_swapped(expr.left_val, vs, vals)
             \/ ~solve_expr_swapped(expr.right_val, vs, vals)

RECURSIVE solve_expr(_, _, _)
solve_expr(expr, vs, vals) ==
    CASE expr.ty = "var" ->
             IF expr.left_val = Str("0") THEN FALSE
             ELSE IF expr.left_val = Str("1") THEN TRUE
             ELSE vals[Index(vs, expr.left_val.str)]
      [] expr.ty = "!" -> ~solve_expr(expr.left_val, vs, vals)
      [] expr.ty = "&" ->
             solve_expr(expr.left_val, vs, vals) /\ solve_expr(expr.right_val, vs, vals)
      [] expr.ty = "|" ->
             solve_expr(expr.left_val, vs, vals) \/ solve_expr(expr.right_val, vs, vals)
      [] expr.ty = "^" ->
             solve_expr(expr.left_val, vs, vals) # solve_expr(expr.right_val, vs, vals)
      [] expr.ty = "=" ->
             solve_expr(expr.left_val, vs, vals) = solve_expr(expr.right_val, vs, vals)
      [] expr.ty = "nand" ->
             ~(solve_expr(expr.left_val, vs, vals) /\ solve_expr(expr.right_val, vs, vals))
      [] expr.ty = "nor" ->
             ~(solve_expr(expr.left_val, vs, vals) \/ solve_expr(expr.right_val, vs, vals))
      [] expr.ty = ">" ->
             ~solve_expr(expr.left_val, vs, vals) \/ solve_expr(expr.right_val, vs, vals)

\* a faulty variant of AllTrueFrom: the loop stops after the first tree
AllTrueFrom_first(exprs, i, vs, vals) ==
    IF i > Len(exprs) THEN TRUE ELSE solve_expr(exprs[i], vs, vals)

\* the inner for loop of solve, with its break on the first false tree
RECURSIVE AllTrueFrom(_, _, _, _)
AllTrueFrom(exprs, i, vs, vals) ==
    IF i > Len(exprs) THEN TRUE
    ELSE IF ~solve_expr(exprs[i], vs, vals) THEN FALSE
    ELSE AllTrueFrom(exprs, i + 1, vs, vals)

\* the line solve prints for a solution: var=value for every variable
SolutionLine(vs, vals) == [i \in 1..Len(vs) |-> << vs[i], vals[i] >>]

(***************************************************************************)
(* Inputs.                                                                 *)
(***************************************************************************)
BinOps == {"&", "^", "|", "nor", "nand", ">", "="}
Leaf(s) == Node(Str(s), None, "var")

\* the trees with exactly n operator nodes and leaves from names
RECURSIVE TreesWith(_, _)
TreesWith(names, n) ==
    IF n = 0
    THEN [left_val : {Str(s) : s \in names}, right_val : {None}, ty : {"var"}]
    ELSE [left_val : TreesWith(names, n - 1), right_val : {None}, ty : {"!"}]
         \cup UNION {[left_val : TreesWith(names, k),
                      right_val : TreesWith(names, n - 1 - k),
                      ty : BinOps] : k \in 0..(n - 1)}

\* the token lines of length n over alphabet
RECURSIVE LinesOfLen(_, _)
LinesOfLen(alphabet, n) ==
    IF n = 0 THEN {<< >>}
    ELSE {Append(l, t) : l \in LinesOfLen(alphabet, n - 1), t \in alphabet}

\* the infix token line of a tree, with parentheses only where the four
\* tiers and left associativity need them
Tier(t) ==
    CASE t.ty \in {"var", "!"} -> 4
      [] t.ty \in {"&", "^"} -> 3
      [] t.ty \in {"|", "nor", "nand", ">"} -> 2
      [] t.ty = "=" -> 1

RECURSIVE Render(_)
Paren(t, need) ==
    IF Tier(t) >= need THEN Render(t) ELSE << "(" >> \o Render(t) \o << ")" >>
Render(t) ==
    CASE t.ty = "var" -> << t.left_val.str >>
      [] t.ty = "!" -> << "!" >> \o Paren(t.left_val, 4)
      [] OTHER -> Paren(t.left_val, Tier(t)) \o << t.ty >>
                  \o Paren(t.right_val, Tier(t) + 1)

TokAlphabet == {"a", "b", "A", "NOR", "nor", "nand",
                "!", "&", "^", "|", ">", "=", "(", ")"}
RenderNames == {"a", "b"}
LeafNames == {"a", "b", "0", "1"}

ExampleLines ==
    { << "a", "&", "b", "|", "c" >>,
      << "!", "a", "&", "b" >>,
      << "a", "|", "b", "=", "c", "^", "d" >>,
      << "a", ">", "b", ">", "c" >>,
      << "(", "a", "&", "b" >>,
      << "a", "&", "b", ")" >>,
      << "(", ")", ")" >>,
      << "a", "nor", "b", "nand", "a" >>,
      << "a", "&", "(", "b", "|", "NOR", ")" >>,
      << "a", "Nand", "b" >>,
      << "0", "&", "B" >> }

\* the lines a Parser is made for: every line of up to MaxLen tokens, the
\* rendering of every tree of up to MaxParseOps operators, and the examples
IsTokLine(line) ==
    \/ \E k \in 1..MaxLen : line \in LinesOfLen(TokAlphabet, k)
    \/ \E k \in 0..MaxParseOps : \E t \in TreesWith(RenderNames, k) : line = Render(t)
    \/ line \in ExampleLines

ExampleExprSets ==
    { << >>,
      << Node(Leaf("a"), Leaf("b"), ">"), Node(Leaf("b"), Leaf("a"), ">") >>,
      << Node(Node(Leaf("a"), Leaf("b"), "&"), Leaf("c"), "|") >>,
      << Node(Node(Leaf("a"), None, "!"), Node(Leaf("b"), Leaf("c"), "^"), "=") >>,
      << Leaf("c"), Node(Leaf("b"), Leaf("a"), "nand"), Node(Leaf("1"), Leaf("c"), "nor") >>,
      << Node(Node(Leaf("a"), Leaf("0"), "nor"), None, "!") >>,
      << Node(Node(Leaf("1"), Leaf("a"), "&"), Node(Leaf("b"), Leaf("0"), "="), ">") >>,
      << Node(Node(Leaf("0"), Leaf("a"), "&"), None, "!"), Node(Leaf("b"), Leaf("a"), "^") >> }

\* the expression sets a Solver is made for: one or two trees with at most
\* MaxOps operators in all, and the examples
IsExprSet(es) ==
    \/ \E k \in 0..MaxOps : \E t \in TreesWith(LeafNames, k) : es = << t >>
    \/ \E k \in 0..MaxOps : \E j \in 0..k :
           \E t \in TreesWith(LeafNames, j), u \in TreesWith(LeafNames, k - j) :
               es = << t, u >>
    \/ es \in ExampleExprSets

(***************************************************************************)
(* State.                                                                  *)
(***************************************************************************)
VARIABLES
    pc,              \* where the run is: "parse", "parsed", "exit",
                     \*   "new", "ready", "loop", "done"
    toks,            \* Parser._toks
    curr_pos,        \* Parser._curr_pos
    lookahead,       \* Parser._lookahead
    err,             \* the message print_err exited with, "" if none
    expr,            \* the tree parse returned, None before and on exit
    exprs,           \* Solver.exprs
    vars,            \* Solver.vars
    values,          \* Solver.values
    iter,            \* the loop variable of solve's outer for
    solution_count,  \* solve's solution_count
    printed,         \* the solution lines this solve printed, in order
    summary,         \* << count, total >> of the final line, << >> before
    evaluated,       \* the vectors this solve evaluated the trees under
    runs,            \* how many times solve was called
    prev_printed,    \* printed of the previous solve
    prev_summary     \* summary of the previous solve

parser_vars == << toks, curr_pos, lookahead, err, expr >>
solver_vars == << exprs, vars, values, iter, solution_count, printed, summary,
                  evaluated, runs, prev_printed, prev_summary >>
vars_all == << pc, parser_vars, solver_vars >>

NoParser ==
    /\ toks = << >>
    /\ curr_pos = 0
    /\ lookahead = NoneTok
    /\ err = ""
    /\ expr = None

NoSolver ==
    /\ exprs = << >>
    /\ vars = << >>
    /\ values = << >>
    /\ iter = 0
    /\ solution_count = 0
    /\ printed = << >>
    /\ summary = << >>
    /\ evaluated = << >>
    /\ runs = 0
    /\ prev_printed = << >>
    /\ prev_summary = << >>

\* main, line 230: Parser(tokens) for one non-empty token line
InitParse ==
    /\ pc = "parse"
    /\ IsTokLine(toks)
    /\ curr_pos = ParserNew(toks).pos
    /\ lookahead = ParserNew(toks).la
    /\ err = ""
    /\ expr = None
    /\ NoSolver

\* main, line 231: parser.parse()
Parse ==
    /\ pc = "parse"
    /\ LET r == parse(toks, [pos |-> curr_pos, la |-> lookahead,
                             err |-> "", tree |-> None])
       IN  /\ curr_pos' = r.pos
           /\ lookahead' = r.la
           /\ err' = r.err
           /\ expr' = r.tree
           /\ pc' = IF r.err = "" THEN "parsed" ELSE "exit"
    /\ UNCHANGED << toks, solver_vars >>

NextParse == Parse

SpecParse == InitParse /\ [][NextParse]_vars_all

\* main, line 235, about to run: the parsed expression set
InitSolve ==
    /\ pc = "new"
    /\ NoParser
    /\ IsExprSet(exprs)
    /\ vars = << >>
    /\ values = << >>
    /\ iter = 0
    /\ solution_count = 0
    /\ printed = << >>
    /\ summary = << >>
    /\ evaluated = << >>
    /\ runs = 0
    /\ prev_printed = << >>
    /\ prev_summary = << >>

\* Solver.__init__
MakeSolver ==
    /\ pc = "new"
    /\ vars' = SolverVars(exprs)
    /\ values' = [i \in 1..Len(SolverVars(exprs)) |-> FALSE]
    /\ pc' = "ready"
    /\ UNCHANGED << parser_vars, exprs, iter, solution_count, printed, summary,
                    evaluated, runs, prev_printed, prev_summary >>

\* a call of Solver.solve, up to the outer for: on a fresh Solver, or again
\* on one whose solve has returned
SolveBegin ==
    /\ pc \in {"ready", "done"}
    /\ runs < MaxRuns
    /\ runs' = runs + 1
    /\ solution_count' = 0
    /\ iter' = 0
    /\ printed' = << >>
    /\ summary' = << >>
    /\ evaluated' = << >>
    /\ prev_printed' = printed
    /\ prev_summary' = summary
    /\ pc' = "loop"
    /\ UNCHANGED << parser_vars, exprs, vars, values >>

\* one pass of the outer for of solve
SolveIter ==
    /\ pc = "loop"
    /\ iter < 2 ^ Len(vars)
    /\ LET is_true == AllTrueFrom(exprs, 1, vars, values)
       IN  /\ solution_count' = IF is_true THEN solution_count + 1
                                 ELSE solution_count
           /\ printed' = IF is_true
                         THEN Append(printed, SolutionLine(vars, values))
                         ELSE printed
    /\ evaluated' = Append(evaluated, values)
    /\ values' = next_combination(values, 0)
    /\ iter' = iter + 1
    /\ UNCHANGED << pc, parser_vars, exprs, vars, summary, runs, prev_printed,
                    prev_summary >>

\* the final line of solve
SolveEnd ==
    /\ pc = "loop"
    /\ iter = 2 ^ Len(vars)
    /\ summary' = << solution_count, 2 ^ Len(vars) >>
    /\ pc' = "done"
    /\ UNCHANGED << parser_vars, exprs, vars, values, iter, solution_count,
                    printed, evaluated, runs, prev_printed, prev_summary >>

NextSolve == MakeSolver \/ SolveBegin \/ SolveIter \/ SolveEnd

SpecSolve == InitSolve /\ [][NextSolve]_vars_all

(***************************************************************************)
(* The grammar of the parser's contract, as a reference that does not      *)
(* share the parser's algorithm: an expression splits at its rightmost     *)
(* operator of the loosest tier outside all parentheses (so operators of   *)
(* one tier group to the left); with no such operator it is "!" and an     *)
(* expression, a parenthesised expression, or one identifier.              *)
(***************************************************************************)
IsKeywordWord(tok) == Lower(tok) \in {"nor", "nand"}

IsWord(tok) == tok \notin {"!", "&", "^", "|", ">", "=", "(", ")"}

IsIdent(tok) == IsWord(tok) /\ ~IsKeywordWord(tok)

RefTier(tok) ==
    CASE tok = "=" -> 1
      [] tok \in {"|", ">"} \/ IsKeywordWord(tok) -> 2
      [] tok \in {"&", "^"} -> 3
      [] OTHER -> 0

Depth(line, i) ==
    Cardinality({j \in 1..(i - 1) : line[j] = "("})
    - Cardinality({j \in 1..(i - 1) : line[j] = ")"})

TopOps(line, tier) ==
    {i \in 1..Len(line) : RefTier(line[i]) = tier /\ Depth(line, i) = 0}

Max(S) == CHOOSE x \in S : \A y \in S : y <= x

SplitPos(line) ==
    IF TopOps(line, 1) # {} THEN Max(TopOps(line, 1))
    ELSE IF TopOps(line, 2) # {} THEN Max(TopOps(line, 2))
    ELSE IF TopOps(line, 3) # {} THEN Max(TopOps(line, 3))
    ELSE 0

RefErr == [ok |-> FALSE, tree |-> None]

RefBin(l, r, ty) ==
    IF l.ok /\ r.ok THEN [ok |-> TRUE, tree |-> Node(l.tree, r.tree, ty)]
    ELSE RefErr

RefNot(s) ==
    IF s.ok THEN [ok |-> TRUE, tree |-> Node(s.tree, None, "!")] ELSE RefErr

RECURSIVE RefParse(_)
RefSplit(line, i) ==
    RefBin(RefParse(SubSeq(line, 1, i - 1)),
           RefParse(SubSeq(line, i + 1, Len(line))), Lower(line[i]))
RefParse(line) ==
    IF line = << >> THEN RefErr
    ELSE IF SplitPos(line) # 0 THEN RefSplit(line, SplitPos(line))
    ELSE IF line[1] = "!" THEN RefNot(RefParse(Tail(line)))
    ELSE IF line[1] = "(" /\ line[Len(line)] = ")" /\ Len(line) >= 2
        THEN RefParse(SubSeq(line, 2, Len(line) - 1))
    ELSE IF Len(line) = 1 /\ IsIdent(line[1])
        THEN [ok |-> TRUE, tree |-> Leaf(line[1])]
    ELSE RefErr

\* the parentheses of a line balance
Balanced(line) ==
    /\ \A i \in 1..(Len(line) + 1) : Depth(line, i) >= 0
    /\ Depth(line, Len(line) + 1) = 0

RECURSIVE LeafPayloads(_)
LeafPayloads(t) ==
    IF ~IsNode(t) THEN {}
    ELSE IF t.ty = "var" THEN {t.left_val.str}
    ELSE LeafPayloads(t.left_val) \cup LeafPayloads(t.right_val)

(***************************************************************************)
(* Claims about the Parser, under SpecParse.                               *)
(***************************************************************************)

\* C4: whenever the parser returns a tree for a line that the grammar
\* accepts, it is the tree the four tiers dictate: "!" tightest, then
\* & ^, then | nor nand >, then =, one tier grouping to the left, a
\* parenthesised expression a primary; a line of the grammar written
\* without capitals always gets that tree; the four lines of the contract
\* give (a & b) | c, (!a) & b, (a | b) = (c ^ d) and (a > b) > c.
C4_PrecedenceTiers ==
    /\ (pc = "parsed" /\ RefParse(toks).ok) => expr = RefParse(toks).tree
    /\ (pc # "parse" /\ RefParse(toks).ok /\ \A i \in 1..Len(toks) : Lower(toks[i]) = toks[i])
           => (pc = "parsed" /\ expr = RefParse(toks).tree)
    /\ (pc # "parse" /\ toks = << "a", "&", "b", "|", "c" >>)
           => expr = Node(Node(Leaf("a"), Leaf("b"), "&"), Leaf("c"), "|")
    /\ (pc # "parse" /\ toks = << "!", "a", "&", "b" >>)
           => expr = Node(Node(Leaf("a"), None, "!"), Leaf("b"), "&")
    /\ (pc # "parse" /\ toks = << "a", "|", "b", "=", "c", "^", "d" >>)
           => expr = Node(Node(Leaf("a"), Leaf("b"), "|"),
                          Node(Leaf("c"), Leaf("d"), "^"), "=")
    /\ (pc # "parse" /\ toks = << "a", ">", "b", ">", "c" >>)
           => expr = Node(Node(Leaf("a"), Leaf("b"), ">"), Leaf("c"), ">")

\* C4 witness: a line mixing two tiers and a parenthesis has been parsed
C4_Witness ==
    /\ pc = "parsed"
    /\ toks = << "a", "&", "(", "b", "|", "a", ")" >>
    /\ expr = Node(Leaf("a"), Node(Leaf("b"), Leaf("a"), "|"), "&")

OperatorToks == {"!", "&", "^", "|", ">", "=", "nor", "nand"}

\* C5: a line that ends with an operator, and a line whose leading
\* complete expression leaves tokens unconsumed, both end in the fatal
\* exit with no tree; parse returns a tree only with every token consumed.
C5_MissingOperandOrLeftover ==
    /\ (pc # "parse" /\ toks[Len(toks)] \in OperatorToks)
           => (pc = "exit" /\ err # "" /\ expr = None)
    /\ (pc # "parse"
        /\ LET e == parse_low_prec_expr(toks, ParserNew(toks))
           IN  e.err = "" /\ e.pos < Len(toks))
           => (pc = "exit" /\ err = "parser_stopped" /\ expr = None)
    /\ pc = "parsed" => (curr_pos = Len(toks) /\ lookahead = NoneTok)

\* C5 witness: "a b" was rejected with its second token left over
C5_Witness ==
    /\ pc = "exit"
    /\ toks = << "a", "b" >>
    /\ err = "parser_stopped"
    /\ curr_pos = 1

\* C6: every line whose parentheses do not balance ends in the fatal exit
\* with no tree, and no leaf of a returned tree is a parenthesis.
C6_UnbalancedRejected ==
    /\ (pc # "parse" /\ ~Balanced(toks)) => (pc = "exit" /\ expr = None)
    /\ pc = "parsed" => LeafPayloads(expr) \cap {"(", ")"} = {}

\* the line with every nor/nand word in lower case
LowerKeywords(line) ==
    [i \in 1..Len(line) |-> IF IsKeywordWord(line[i]) THEN Lower(line[i])
                            ELSE line[i]]

\* C7: nor/nand are recognised in any letter case: a line parses to what
\* the same line with its nor/nand words in lower case parses to, and no
\* leaf of a returned tree is a nor/nand word.
C7_KeywordAnyCase ==
    /\ pc # "parse" =>
           LET r == parse(LowerKeywords(toks), ParserNew(LowerKeywords(toks)))
           IN  expr = r.tree /\ (err = "") = (r.err = "")
    /\ pc = "parsed" => \A s \in LeafPayloads(expr) : ~IsKeywordWord(s)

\* C10: in a line without nor/nand words that the grammar accepts, every
\* identifier becomes a leaf with exactly its token as payload, whatever
\* its letter case and position: the line parses to the grammar's tree.
C10_IdentifierAnyCase ==
    (pc # "parse" /\ RefParse(toks).ok /\ \A i \in 1..Len(toks) : ~IsKeywordWord(toks[i]))
        => (pc = "parsed" /\ expr = RefParse(toks).tree)

(***************************************************************************)
(* Reference semantics for the Solver's claims.                            *)
(***************************************************************************)
\* the truth tables of the binary operators, indexed by tag, L and R
TruthTable ==
    [op \in BinOps |->
        CASE op = "&" -> << << FALSE, FALSE >>, << FALSE, TRUE >> >>
          [] op = "|" -> << << FALSE, TRUE >>, << TRUE, TRUE >> >>
          [] op = "^" -> << << FALSE, TRUE >>, << TRUE, FALSE >> >>
          [] op = "=" -> << << TRUE, FALSE >>, << FALSE, TRUE >> >>
          [] op = "nand" -> << << TRUE, TRUE >>, << TRUE, FALSE >> >>
          [] op = "nor" -> << << TRUE, FALSE >>, << FALSE, FALSE >> >>
          [] op = ">" -> << << TRUE, TRUE >>, << FALSE, TRUE >> >>]

Bit(b) == IF b THEN 2 ELSE 1

\* the value of tree t under the assignment asg, a function from the free
\* variables to BOOLEAN
RECURSIVE RefEval(_, _)
RefEval(t, asg) ==
    IF t.ty = "var" THEN
        IF t.left_val.str = "0" THEN FALSE
        ELSE IF t.left_val.str = "1" THEN TRUE
        ELSE asg[t.left_val.str]
    ELSE IF t.ty = "!" THEN RefEval(t.left_val, asg) = FALSE
    ELSE TruthTable[t.ty][Bit(RefEval(t.left_val, asg))][Bit(RefEval(t.right_val, asg))]

\* the free variables of an expression set: the leaf payloads but 0 and 1
FreeVars(es) ==
    UNION {LeafPayloads(es[i]) : i \in 1..Len(es)} \ {"0", "1"}

Range(f) == {f[i] : i \in DOMAIN f}

\* the n-bit binary representation of k, bit 0 first
Bits(k, n) == [i \in 1..n |-> (k \div (2 ^ (i - 1))) % 2 = 1]

\* the free variables of an expression set in ascending order
SortedFreeVars(es) ==
    CHOOSE vs \in [1..Cardinality(FreeVars(es)) -> FreeVars(es)] :
        \A i, j \in DOMAIN vs : i < j => Rank(vs[i]) < Rank(vs[j])

\* the assignment a vector stands for, given the variable list
AsgOf(vs, vals) == [v \in Range(vs) |-> vals[CHOOSE i \in 1..Len(vs) : vs[i] = v]]

Satisfies(es, asg) == \A i \in 1..Len(es) : RefEval(es[i], asg)

\* the solution lines of the assignments k..2^n-1 that satisfy es, in order
RECURSIVE SolutionsFrom(_, _, _)
SolutionsFrom(es, vs, k) ==
    IF k >= 2 ^ Len(vs) THEN << >>
    ELSE (IF Satisfies(es, AsgOf(vs, Bits(k, Len(vs))))
          THEN << [i \in 1..Len(vs) |-> << vs[i], Bits(k, Len(vs))[i] >>] >>
          ELSE << >>)
         \o SolutionsFrom(es, vs, k + 1)

RECURSIVE Subtrees(_)
Subtrees(t) ==
    IF ~IsNode(t) \/ t.ty = "var" THEN IF IsNode(t) THEN {t} ELSE {}
    ELSE {t} \cup Subtrees(t.left_val) \cup Subtrees(t.right_val)

(***************************************************************************)
(* Claims about the Solver, under SpecSolve.                               *)
(***************************************************************************)

\* C1: with n free variables a full run of solve evaluates under exactly
\* 2^n vectors, none twice, and together they are the whole hypercube of
\* dimension n (the one empty vector for n = 0); mid-run, one vector per
\* pass and no repeats so far.
C1_FullHypercube ==
    LET n == Cardinality(FreeVars(exprs))
    IN  /\ pc = "loop" =>
               /\ Len(evaluated) = iter
               /\ \A i, j \in 1..Len(evaluated) : evaluated[i] = evaluated[j] => i = j
        /\ pc = "done" =>
               /\ Len(evaluated) = 2 ^ n
               /\ \A i, j \in 1..Len(evaluated) : evaluated[i] = evaluated[j] => i = j
               /\ Range(evaluated) = [1..n -> BOOLEAN]

\* C1 witness: a run over three free variables has finished
C1_Witness ==
    /\ pc = "done"
    /\ Cardinality(FreeVars(exprs)) = 3
    /\ Len(evaluated) = 8

\* C2: the solutions solve has printed are exactly the assignments, in
\* enumeration order, under which every tree is true, each line naming
\* every free variable; the final line gives their number out of 2^n;
\* a ^ b gives 2 of 4, and a > b with b > a the two assignments with a = b.
C2_SolutionsAreSatisfying ==
    /\ pc = "done" =>
           /\ printed = SolutionsFrom(exprs, SortedFreeVars(exprs), 0)
           /\ \A k \in 1..Len(printed) :
                  {printed[k][i][1] : i \in DOMAIN printed[k]} = FreeVars(exprs)
           /\ summary = << Len(printed), 2 ^ Cardinality(FreeVars(exprs)) >>
           /\ solution_count = Len(printed)
    /\ (pc = "done" /\ exprs = << Node(Leaf("a"), Leaf("b"), "^") >>) =>
           /\ printed = << << << "a", TRUE >>, << "b", FALSE >> >>,
                           << << "a", FALSE >>, << "b", TRUE >> >> >>
           /\ summary = << 2, 4 >>
    /\ (pc = "done" /\ exprs = << Node(Leaf("a"), Leaf("b"), ">"),
                                  Node(Leaf("b"), Leaf("a"), ">") >>) =>
           /\ printed = << << << "a", FALSE >>, << "b", FALSE >> >>,
                           << << "a", TRUE >>, << "b", TRUE >> >> >>
           /\ summary = << 2, 4 >>

\* C2 witness: the two implications were solved: 2 of 4
C2_Witness ==
    /\ pc = "done"
    /\ exprs = << Node(Leaf("a"), Leaf("b"), ">"), Node(Leaf("b"), Leaf("a"), ">") >>
    /\ summary = << 2, 4 >>

\* C3: under every vector the run reaches, _solve_expr gives every subtree
\* of every tree the value of the reference truth tables; 0 and 1 are
\* false and true under every vector, 1 & x is x and 0 & x is false.
C3_TruthTables ==
    pc \in {"loop", "done"} =>
        \A i \in 1..Len(exprs) : \A t \in Subtrees(exprs[i]) :
            /\ solve_expr(t, vars, values) = RefEval(t, AsgOf(vars, values))
            /\ (t.ty = "var" /\ t.left_val.str = "0") => ~solve_expr(t, vars, values)
            /\ (t.ty = "var" /\ t.left_val.str = "1") => solve_expr(t, vars, values)
            /\ (t.ty = "&" /\ t.left_val = Leaf("1")) =>
                   solve_expr(t, vars, values) = solve_expr(t.right_val, vars, values)
            /\ (t.ty = "&" /\ t.left_val = Leaf("0")) => ~solve_expr(t, vars, values)

\* C3 witness: an implication is being evaluated with a true and b false
C3_Witness ==
    /\ pc = "loop"
    /\ exprs = << Node(Leaf("a"), Leaf("b"), ">") >>
    /\ values = << TRUE, FALSE >>
    /\ ~solve_expr(exprs[1], vars, values)

\* C8: the Solver's variable list holds exactly the leaf payloads other
\* than 0 and 1, each once, in ascending order; 0 and 1 are never in it;
\* the vector has one slot per variable, so every non-constant leaf has one.
C8_SortedFreeVars ==
    pc # "new" =>
        /\ Range(vars) = FreeVars(exprs)
        /\ \A i, j \in 1..Len(vars) : i < j => Rank(vars[i]) < Rank(vars[j])
        /\ "0" \notin Range(vars) /\ "1" \notin Range(vars)
        /\ Len(values) = Len(vars)
        /\ \A i \in 1..Len(exprs) : \A s \in LeafPayloads(exprs[i]) :
               s \in {"0", "1"} \/ \E k \in DOMAIN values : vars[k] = s

\* C8 witness: constants and three variables, met out of order
C8_Witness ==
    /\ pc = "ready"
    /\ exprs = << Leaf("c"), Node(Leaf("b"), Leaf("a"), "nand"),
                  Node(Leaf("1"), Leaf("c"), "nor") >>
    /\ vars = << "a", "b", "c" >>

\* C9: the vector is a binary counter with the first variable as bit 0:
\* the k-th vector evaluated is the n-bit form of k, after every pass the
\* vector is the n-bit form of the pass count modulo 2^n, so a finished
\* run leaves it all false, and a second solve on the same Solver prints
\* the same solution lines and the same final line.
C9_BinaryCounter ==
    LET n == Len(vars)
    IN  /\ pc \in {"loop", "done"} =>
               /\ values = Bits(iter % (2 ^ n), n)
               /\ \A k \in 1..Len(evaluated) : evaluated[k] = Bits(k - 1, n)
        /\ pc = "done" => \A i \in 1..n : ~values[i]
        /\ (pc = "done" /\ runs >= 2) =>
               (printed = prev_printed /\ summary = prev_summary)

\* C9 witness: a second solve over three variables has finished after the
\* counter carried through all its bits
C9_Witness ==
    /\ pc = "done"
    /\ runs = 2
    /\ Len(vars) = 3
    /\ evaluated[8] = << TRUE, TRUE, TRUE >>
    /\ printed # << >>
====
